---- MODULE Spec2Model ----
(***************************************************************************)
(* The rule evaluation engine of the compliance / anomaly scanner:         *)
(*   server/scripts/compliance_scanner.py  scan_text, scan_transactions    *)
(*   server/python/anomaly_detector.py     AnomalyDetector                 *)
(* One session runs one entry operation (op) on one input; every loop of   *)
(* the code is stepped one iteration per action.                           *)
(*                                                                         *)
(* Abstractions.  A text is a sequence of words and a regex is the set of  *)
(* words it matches (a match is a whole word).  A timestamp string is its  *)
(* minute on the time line plus whether it carries a UTC offset.  A mean   *)
(* is the exact fraction sum/len.  A Python dict is a function whose       *)
(* DOMAIN is the set of keys present.                                      *)
(***************************************************************************)
EXTENDS Integers, Sequences, FiniteSets, TLC

VARIABLES
    op,             \* the entry operation this session runs
    pc,             \* "start", "loop", "returned" or "raised"
    error,          \* the exception that ended the call, "" when none
    rules,          \* the loaded rule document (rules["rules"])
    clock,          \* what datetime.utcnow() reads
    call,           \* scan_transactions: "first" or "second" call on the batch
    previous,       \* scan_transactions: what the first call returned
    transactions,   \* scan_transactions: the batch
    pos,            \* index of the next element of the loop in progress
    timestamps,     \* scan_transactions: the rolling window
    window_minutes, \* scan_transactions: the parsed window length
    findings,       \* scan_transactions: the result list
    text,           \* scan_text: the scanned string
    results,        \* scan_text: the result list
    api_sources,    \* detect_api_anomalies: the telemetry batch
    avg_calls,      \* detect_api_anomalies: the batch mean, [num, den]
    anomalies       \* detect_api_anomalies: the result list

vars == <<op, pc, error, rules, clock, call, previous, transactions, pos,
          timestamps, window_minutes, findings, text, results, api_sources,
          avg_calls, anomalies>>

(***************************************************************************)
(* Bounds of the model.                                                    *)
(***************************************************************************)
MaxLen == 3         \* transactions in a batch
MaxText == 2        \* words in a text
MaxSources == 6     \* telemetry sources in a batch
MaxClock == 1       \* readings of the clock that differ

(***************************************************************************)
(* Python dicts and values.                                                *)
(***************************************************************************)
EmptyDict == [k \in {} |-> 0]

Get(d, k, default) == IF k \in DOMAIN d THEN d[k] ELSE default

\* A JSON amount: a number or a string.
Num(n) == [type |-> "number", num |-> n, str |-> ""]
Str(s) == [type |-> "string", num |-> 0, str |-> s]

\* The strings float() accepts, with their value; float() raises ValueError
\* on every other string.
NumericStrings == [s \in {"15"} |-> 15]

FloatRaises(v) == v.type = "string" /\ v.str \notin DOMAIN NumericStrings

Float(v) == IF v.type = "number" THEN v.num ELSE NumericStrings[v.str]

\* A timestamp value of a record: None, a string that is no ISO date, or an
\* ISO date at a minute, with ("...Z") or without a UTC offset.
NoneTs == [kind |-> "none", minute |-> 0, aware |-> FALSE]
TextTs == [kind |-> "text", minute |-> 0, aware |-> FALSE]
IsoTs(m, z) == [kind |-> "iso", minute |-> m, aware |-> z]

\* ParseTimestamp with the failure swallowed into a default date: a string
\* that is no ISO date comes back as minute 0 instead of None.
ParseTimestamp_Defaulted(raw) ==
    IF raw.kind = "none"
    THEN [ok |-> FALSE, minute |-> 0, aware |-> FALSE]
    ELSE [ok |-> TRUE, minute |-> raw.minute, aware |-> raw.aware]

ParseTimestamp(raw) ==
    \* datetime.fromisoformat(str(timestamp).replace("Z", "+00:00")), guarded
    \* by "if timestamp" and "except ValueError: pass": ts stays None unless
    \* the string is an ISO date.
    IF raw.kind = "iso"
    THEN [ok |-> TRUE, minute |-> raw.minute, aware |-> raw.aware]
    ELSE [ok |-> FALSE, minute |-> 0, aware |-> FALSE]

TimestampOf(tx) ==
    \* tx.get("timestamp") or tx.get("date")
    LET t == Get(tx, "timestamp", NoneTs)
    IN  IF t.kind # "none" THEN t ELSE Get(tx, "date", NoneTs)

(***************************************************************************)
(* scan_transactions: the rule configuration.                              *)
(***************************************************************************)
HourUnits == {"hour", "hours"}
MinuteUnits == {"minute", "minutes"}

\* "<n>_<unit>", the form of rapid_transactions.timeWindow
Token(n, unit) == [n |-> n, unit |-> unit]

FinRules(doc) == Get(doc, "financial_compliance", EmptyDict)

FinEnabled(doc) == Get(FinRules(doc), "enabled", FALSE)

HighValueCfg(doc) ==
    Get(Get(FinRules(doc), "rules", EmptyDict), "high_value_transaction", EmptyDict)

RapidCfg(doc) ==
    Get(Get(FinRules(doc), "rules", EmptyDict), "rapid_transactions", EmptyDict)

WindowMinutes(rapid_cfg) ==
    IF rapid_cfg # EmptyDict /\ "timeWindow" \in DOMAIN rapid_cfg
    THEN LET token == rapid_cfg.timeWindow
         IN  IF token.unit \in HourUnits THEN token.n * 60
             ELSE IF token.unit \in MinuteUnits THEN token.n
             ELSE 60
    ELSE 0

\* rapid_cfg.get("count") as a truth value: present and not 0
CountSet(rapid_cfg) == "count" \in DOMAIN rapid_cfg /\ rapid_cfg.count # 0

(***************************************************************************)
(* scan_transactions: one iteration of the loop over the batch.            *)
(***************************************************************************)
\* HighValueExceeds with >= for >.
HighValueExceeds_AtLeast(high_value_cfg, amount) ==
    /\ high_value_cfg # EmptyDict
    /\ "threshold" \in DOMAIN high_value_cfg
    /\ amount >= high_value_cfg.threshold

HighValueExceeds(high_value_cfg, amount) ==
    \* high_value_cfg and amount > high_value_cfg.get("threshold", inf)
    /\ high_value_cfg # EmptyDict
    /\ "threshold" \in DOMAIN high_value_cfg
    /\ amount > high_value_cfg.threshold

HighValueFinding(high_value_cfg, amount, tx, now) ==
    [type |-> "financial_compliance",
     subtype |-> "high_value_transaction",
     amount |-> amount,
     threshold |-> high_value_cfg.threshold,
     action |-> Get(high_value_cfg, "action", "alert"),
     severity |-> Get(high_value_cfg, "severity", "high"),
     source |-> "transactions",
     transaction |-> tx,
     timestamp |-> now]

Evict(window, ts, minutes) ==
    \* cutoff = ts - timedelta(minutes); keep t >= cutoff
    IF minutes > 0
    THEN SelectSeq(window, LAMBDA t : t.minute >= ts.minute - minutes)
    ELSE window

CompareRaises(window, ts, minutes) ==
    \* t >= cutoff between an offset-naive and an offset-aware datetime
    \* raises TypeError
    /\ minutes > 0
    /\ \E i \in DOMAIN window : window[i].aware # ts.aware

WindowBreached(rapid_cfg, window) ==
    \* rapid_cfg.get("count") and len(timestamps) > rapid_cfg["count"]
    CountSet(rapid_cfg) /\ Len(window) > rapid_cfg.count

RapidFinding(rapid_cfg, window, minutes, tx, now) ==
    [type |-> "financial_compliance",
     subtype |-> "rapid_transactions",
     transaction_count |-> Len(window),
     threshold |-> rapid_cfg.count,
     window_minutes |-> minutes,
     action |-> Get(rapid_cfg, "action", "alert"),
     severity |-> Get(rapid_cfg, "severity", "critical"),
     source |-> "transactions",
     transaction |-> tx,
     timestamp |-> now]

\* The loop body on the locals st = [timestamps, findings, error]; error is
\* the exception the iteration raises, "" when it completes.
ProcessTx(st, tx, doc, minutes, now) ==
    LET high_value_cfg == HighValueCfg(doc)
        rapid_cfg == RapidCfg(doc)
        raw == Get(tx, "amount", Num(0))
    IN  IF FloatRaises(raw)
        THEN [st EXCEPT !.error = "ValueError"]
        ELSE
        LET amount == Float(raw)
            ts == ParseTimestamp(TimestampOf(tx))
            found == IF HighValueExceeds(high_value_cfg, amount)
                     THEN Append(st.findings,
                                 HighValueFinding(high_value_cfg, amount, tx, now))
                     ELSE st.findings
        IN  IF rapid_cfg # EmptyDict /\ ts.ok
            THEN IF CompareRaises(st.timestamps, ts, minutes)
                 THEN [timestamps |-> st.timestamps, findings |-> found,
                       error |-> "TypeError"]
                 ELSE
                 LET window == Append(Evict(st.timestamps, ts, minutes),
                                      [minute |-> ts.minute, aware |-> ts.aware])
                 IN  [timestamps |-> window,
                      findings |->
                          IF WindowBreached(rapid_cfg, window)
                          THEN Append(found,
                                      RapidFinding(rapid_cfg, window, minutes, tx, now))
                          ELSE found,
                      error |-> ""]
            ELSE [timestamps |-> st.timestamps, findings |-> found, error |-> ""]

\* FreshTimestamps with the list kept at module level: the next call starts
\* from what the last one left.
FreshTimestamps_Carried(carried) == carried

\* The list the window starts from on a call; carried is the list the
\* previous call left behind.
FreshTimestamps(carried) == <<>>

(***************************************************************************)
(* scan_text.                                                              *)
(***************************************************************************)
Word(w) == [kind |-> "word", w |-> w]

\* label.upper()
Upper(label) ==
    CASE label = "email" -> "EMAIL"
      [] label = "ssn" -> "SSN"
      [] label = "phone" -> "PHONE"

\* f"<{label.upper()}_REDACTED>"
Placeholder(label) == [kind |-> "placeholder", w |-> Upper(label)]

Matches(regex, tok) == tok.kind = "word" /\ tok.w \in regex

\* regex.findall(text)
FindAll(regex, t) == SelectSeq(t, LAMBDA tok : Matches(regex, tok))

\* _redact: regex.sub(placeholder, text)
Redact(t, regex, label) ==
    [i \in DOMAIN t |-> IF Matches(regex, t[i]) THEN Placeholder(label) ELSE t[i]]

PiiRules(doc) == Get(doc, "pii_detection", EmptyDict)

PiiEnabled(doc) == Get(PiiRules(doc), "enabled", FALSE)

\* pii_rules.get("patterns", {}).items(), in the dict's order
Patterns(doc) == Get(PiiRules(doc), "patterns", <<>>)

TextFinding(name, cfg, matches, t, now) ==
    [type |-> "pii_detection",
     subtype |-> name,
     matches |-> Len(matches),
     action |-> Get(cfg, "action", "alert"),
     severity |-> Get(cfg, "severity", "medium"),
     source |-> "logs",
     content |-> Redact(t, cfg.regex, name),
     timestamp |-> now]

\* One iteration of the loop over the patterns.
ScanPattern(found, pattern, t, now) ==
    LET matches == FindAll(pattern.cfg.regex, t)
    IN  IF matches = <<>>
        THEN found
        ELSE Append(found, TextFinding(pattern.name, pattern.cfg, matches, t, now))

(***************************************************************************)
(* AnomalyDetector.                                                        *)
(***************************************************************************)
\* self.thresholds['call_volume_multiplier']
call_volume_multiplier == 3

\* the factor of the severity tier in _analyze_source
CriticalMultiplier == 5

\* timedelta(hours=2)
StaleHours == 2

RECURSIVE SumCalls(_)
SumCalls(volumes) ==
    IF volumes = <<>> THEN 0 ELSE Head(volumes) + SumCalls(Tail(volumes))

\* statistics.mean(call_volumes) if call_volumes else 0, as a fraction
Mean(sources) ==
    LET call_volumes == [i \in DOMAIN sources |-> Get(sources[i], "callsToday", 0)]
    IN  IF call_volumes = <<>>
        THEN [num |-> 0, den |-> 1]
        ELSE [num |-> SumCalls(call_volumes), den |-> Len(call_volumes)]

\* avg_calls > 0 and calls_today > avg_calls * multiplier
VolumeSpike(calls_today, avg) ==
    /\ avg.num > 0
    /\ calls_today * avg.den > avg.num * call_volume_multiplier

\* VolumeSeverity with <= for <.
VolumeSeverity_Inclusive(calls_today, avg) ==
    IF calls_today * avg.den <= avg.num * 5
    THEN "warning"
    ELSE "critical"

\* 'warning' if calls_today < avg_calls * 5 else 'critical'
VolumeSeverity(calls_today, avg) ==
    IF calls_today * avg.den < avg.num * CriticalMultiplier
    THEN "warning"
    ELSE "critical"

VolumeAnomalies(source, avg) ==
    LET calls_today == Get(source, "callsToday", 0)
    IN  IF VolumeSpike(calls_today, avg)
        THEN << [source |-> Get(source, "name", "Unknown"),
                 type |-> "volume_spike",
                 severity |-> VolumeSeverity(calls_today, avg),
                 metadata |-> [current_calls |-> calls_today,
                               average_calls |-> avg]] >>
        ELSE <<>>

StatusAnomalies(source) ==
    LET status == Get(source, "status", "unknown")
    IN  IF status # "active"
        THEN << [source |-> Get(source, "name", "Unknown"),
                 type |-> "service_status",
                 severity |-> IF status = "down" THEN "critical" ELSE "warning",
                 metadata |-> [status |-> status]] >>
        ELSE <<>>

severity_map == [elevated |-> "warning", high |-> "warning", critical |-> "critical"]

AlertAnomalies(source) ==
    LET alert_status == Get(source, "alertStatus", "normal")
    IN  IF alert_status # "normal"
        THEN << [source |-> Get(source, "name", "Unknown"),
                 type |-> "alert_escalation",
                 severity |-> Get(severity_map, alert_status, "warning"),
                 metadata |-> [alert_status |-> alert_status]] >>
        ELSE <<>>

\* lastActivity: an ISO date hours_ago hours before now, or a string that is
\* no date (ValueError, passed over); absent, the check is skipped.
StaleAnomalies(source) ==
    IF "lastActivity" \in DOMAIN source
       /\ source.lastActivity.iso
       /\ source.lastActivity.hours_ago > StaleHours
    THEN << [source |-> Get(source, "name", "Unknown"),
             type |-> "stale_data",
             severity |-> "warning",
             metadata |-> [last_activity |-> source.lastActivity]] >>
    ELSE <<>>

\* _analyze_source
AnalyzeSource(source, avg) ==
    VolumeAnomalies(source, avg) \o StatusAnomalies(source)
        \o AlertAnomalies(source) \o StaleAnomalies(source)

(***************************************************************************)
(* The inputs of a session.                                                *)
(***************************************************************************)
\* Transaction records: amounts below, at and above the threshold 10 at the
\* minutes 0, 2 and 3; an amount float() rejects; a numeric string and no
\* timestamp; a timestamp that is no date; no amount and a "date" key; a
\* timestamp with a UTC offset.
TxVals ==
    { [amount |-> Num(5), timestamp |-> IsoTs(0, FALSE)],
      [amount |-> Num(10), timestamp |-> IsoTs(2, FALSE)],
      [amount |-> Num(11), timestamp |-> IsoTs(3, FALSE)],
      [amount |-> Str("n/a"), timestamp |-> IsoTs(0, FALSE)],
      [amount |-> Str("15")],
      [amount |-> Num(11), timestamp |-> TextTs],
      [date |-> IsoTs(2, FALSE)],
      [amount |-> Num(5), timestamp |-> IsoTs(2, TRUE)] }

Batches == UNION { [1..n -> TxVals] : n \in 0..MaxLen }

EmailRegex == {"a@b.com"}
SsnRegex == {"123-45-6789"}
PhoneRegex == {"555-0100", "123-45-6789"}

Words == {"hello", "a@b.com", "123-45-6789", "555-0100"}

Texts == UNION { [1..n -> {Word(w) : w \in Words}] : n \in 0..MaxText }

PiiFull ==
    [enabled |-> TRUE,
     patterns |->
        << [name |-> "email",
            cfg |-> [regex |-> EmailRegex, action |-> "alert", severity |-> "warning"]],
           [name |-> "ssn",
            cfg |-> [regex |-> SsnRegex, action |-> "block", severity |-> "critical"]] >>]

PiiBare ==
    [enabled |-> TRUE,
     patterns |->
        << [name |-> "ssn", cfg |-> [regex |-> SsnRegex]],
           [name |-> "phone", cfg |-> [regex |-> PhoneRegex, severity |-> "info"]] >>]

PiiOff == [enabled |-> FALSE, patterns |-> PiiFull.patterns]

HighValueFull == [threshold |-> 10, action |-> "block", severity |-> "warning"]

Fin(rs) == [enabled |-> TRUE, rules |-> rs]

\* The rule documents: rules["rules"] of complianceRules.json
RuleDocs ==
    { [pii_detection |-> PiiFull,
       financial_compliance |->
          Fin([high_value_transaction |-> HighValueFull,
               rapid_transactions |->
                  [timeWindow |-> Token(2, "minutes"), count |-> 1,
                   action |-> "alert", severity |-> "critical"]])],
      [pii_detection |-> PiiBare,
       financial_compliance |->
          Fin([high_value_transaction |-> [threshold |-> 10],
               rapid_transactions |->
                  [timeWindow |-> Token(1, "hour"), count |-> 2]])],
      [pii_detection |-> PiiOff,
       financial_compliance |->
          Fin([rapid_transactions |->
                  [timeWindow |-> Token(1, "day"), count |-> 1,
                   severity |-> "warning"]])],
      [financial_compliance |->
          Fin([high_value_transaction |-> [action |-> "log", severity |-> "info"],
               rapid_transactions |->
                  [timeWindow |-> Token(2, "minutes"), count |-> 0,
                   action |-> "alert", severity |-> "critical"]])],
      [pii_detection |-> PiiFull,
       financial_compliance |->
          Fin([high_value_transaction |-> HighValueFull,
               rapid_transactions |->
                  [count |-> 1, action |-> "alert", severity |-> "critical"]])],
      [pii_detection |-> PiiOff,
       financial_compliance |->
          Fin([high_value_transaction |-> HighValueFull])],
      [pii_detection |-> PiiBare,
       financial_compliance |->
          [enabled |-> FALSE,
           rules |-> [high_value_transaction |-> HighValueFull]]] }

\* Telemetry sources: each call volume with one case of the other checks.
SourceVals ==
    { [name |-> "idle", status |-> "active", alertStatus |-> "normal"],
      [name |-> "low", callsToday |-> 50, status |-> "down",
       alertStatus |-> "critical",
       lastActivity |-> [iso |-> TRUE, hours_ago |-> 3]],
      [name |-> "busy", callsToday |-> 350, status |-> "degraded",
       alertStatus |-> "elevated",
       lastActivity |-> [iso |-> TRUE, hours_ago |-> 2]],
      [callsToday |-> 600, alertStatus |-> "paused",
       lastActivity |-> [iso |-> FALSE, hours_ago |-> 0]] }

SourceBatches == UNION { [1..n -> SourceVals] : n \in 0..MaxSources }

(***************************************************************************)
(* The state after construction: the entry operation and its arguments.   *)
(***************************************************************************)
Init ==
    /\ op \in {"scan_transactions", "scan_text", "detect_api_anomalies"}
    /\ pc = "start"
    /\ error = ""
    /\ clock = 0
    /\ call = "first"
    /\ previous = <<>>
    /\ pos = 1
    /\ timestamps = <<>>
    /\ window_minutes = 0
    /\ findings = <<>>
    /\ results = <<>>
    /\ avg_calls = [num |-> 0, den |-> 1]
    /\ anomalies = <<>>
    /\ rules \in IF op = "detect_api_anomalies" THEN {EmptyDict} ELSE RuleDocs
    /\ transactions \in IF op = "scan_transactions" THEN Batches ELSE {<<>>}
    /\ text \in IF op = "scan_text" THEN Texts ELSE {<<>>}
    /\ api_sources \in IF op = "detect_api_anomalies" THEN SourceBatches ELSE {<<>>}

(***************************************************************************)
(* scan_transactions.                                                      *)
(***************************************************************************)
\* The call up to the loop: the locals are created; a disabled category
\* returns at once.
ScanTransactionsBegin ==
    /\ op = "scan_transactions"
    /\ pc = "start"
    /\ findings' = <<>>
    /\ pos' = 1
    /\ IF FinEnabled(rules)
       THEN /\ timestamps' = FreshTimestamps(timestamps)
            /\ window_minutes' = WindowMinutes(RapidCfg(rules))
            /\ pc' = "loop"
       ELSE /\ UNCHANGED <<timestamps, window_minutes>>
            /\ pc' = "returned"
    /\ UNCHANGED <<op, error, rules, clock, call, previous, transactions,
                   text, results, api_sources, avg_calls, anomalies>>

\* One iteration: for tx in transactions.  An exception leaves the call.
ScanTransactionsTx ==
    /\ op = "scan_transactions"
    /\ pc = "loop"
    /\ pos <= Len(transactions)
    /\ LET st == ProcessTx([timestamps |-> timestamps, findings |-> findings,
                            error |-> ""],
                           transactions[pos], rules, window_minutes, clock)
       IN  /\ timestamps' = st.timestamps
           /\ findings' = st.findings
           /\ error' = st.error
           /\ IF st.error = ""
              THEN pos' = pos + 1 /\ pc' = "loop"
              ELSE pos' = pos /\ pc' = "raised"
    /\ UNCHANGED <<op, rules, clock, call, previous, transactions,
                   window_minutes, text, results, api_sources, avg_calls,
                   anomalies>>

\* return findings
ScanTransactionsReturn ==
    /\ op = "scan_transactions"
    /\ pc = "loop"
    /\ pos > Len(transactions)
    /\ pc' = "returned"
    /\ UNCHANGED <<op, error, rules, clock, call, previous, transactions, pos,
                   timestamps, window_minutes, findings, text, results,
                   api_sources, avg_calls, anomalies>>

\* The caller keeps the result and calls again with the same batch and rules.
ScanTransactionsAgain ==
    /\ op = "scan_transactions"
    /\ pc = "returned"
    /\ call = "first"
    /\ call' = "second"
    /\ previous' = findings
    /\ pc' = "start"
    /\ UNCHANGED <<op, error, rules, clock, transactions, pos, timestamps,
                   window_minutes, findings, text, results, api_sources,
                   avg_calls, anomalies>>

\* Time passes: datetime.utcnow() reads a later instant.
Tick ==
    /\ op \in {"scan_transactions", "scan_text"}
    /\ pc \in {"start", "loop"}
    /\ clock < MaxClock
    /\ clock' = clock + 1
    /\ UNCHANGED <<op, pc, error, rules, call, previous, transactions, pos,
                   timestamps, window_minutes, findings, text, results,
                   api_sources, avg_calls, anomalies>>

(***************************************************************************)
(* scan_text.                                                              *)
(***************************************************************************)
ScanTextBegin ==
    /\ op = "scan_text"
    /\ pc = "start"
    /\ results' = <<>>
    /\ pos' = 1
    /\ pc' = IF PiiEnabled(rules) THEN "loop" ELSE "returned"
    /\ UNCHANGED <<op, error, rules, clock, call, previous, transactions,
                   timestamps, window_minutes, findings, text, api_sources,
                   avg_calls, anomalies>>

ScanTextPattern ==
    /\ op = "scan_text"
    /\ pc = "loop"
    /\ pos <= Len(Patterns(rules))
    /\ results' = ScanPattern(results, Patterns(rules)[pos], text, clock)
    /\ pos' = pos + 1
    /\ UNCHANGED <<op, pc, error, rules, clock, call, previous, transactions,
                   timestamps, window_minutes, findings, text, api_sources,
                   avg_calls, anomalies>>

ScanTextReturn ==
    /\ op = "scan_text"
    /\ pc = "loop"
    /\ pos > Len(Patterns(rules))
    /\ pc' = "returned"
    /\ UNCHANGED <<op, error, rules, clock, call, previous, transactions, pos,
                   timestamps, window_minutes, findings, text, results,
                   api_sources, avg_calls, anomalies>>

(***************************************************************************)
(* AnomalyDetector.detect_api_anomalies.                                   *)
(***************************************************************************)
DetectBegin ==
    /\ op = "detect_api_anomalies"
    /\ pc = "start"
    /\ anomalies' = <<>>
    /\ avg_calls' = Mean(api_sources)
    /\ pos' = 1
    /\ pc' = "loop"
    /\ UNCHANGED <<op, error, rules, clock, call, previous, transactions,
                   timestamps, window_minutes, findings, text, results,
                   api_sources>>

DetectSource ==
    /\ op = "detect_api_anomalies"
    /\ pc = "loop"
    /\ pos <= Len(api_sources)
    /\ anomalies' = anomalies \o AnalyzeSource(api_sources[pos], avg_calls)
    /\ pos' = pos + 1
    /\ UNCHANGED <<op, pc, error, rules, clock, call, previous, transactions,
                   timestamps, window_minutes, findings, text, results,
                   api_sources, avg_calls>>

DetectReturn ==
    /\ op = "detect_api_anomalies"
    /\ pc = "loop"
    /\ pos > Len(api_sources)
    /\ pc' = "returned"
    /\ UNCHANGED <<op, error, rules, clock, call, previous, transactions, pos,
                   timestamps, window_minutes, findings, text, results,
                   api_sources, avg_calls, anomalies>>

Next ==
    \/ ScanTransactionsBegin
    \/ ScanTransactionsTx
    \/ ScanTransactionsReturn
    \/ ScanTransactionsAgain
    \/ Tick
    \/ ScanTextBegin
    \/ ScanTextPattern
    \/ ScanTextReturn
    \/ DetectBegin
    \/ DetectSource
    \/ DetectReturn

Spec == Init /\ [][Next]_vars

(***************************************************************************)
(* scan_transactions as a function of the batch: the loop run to its end   *)
(* or to the first exception, from fresh locals.                           *)
(***************************************************************************)
RECURSIVE ScanFrom(_, _, _, _)
ScanFrom(st, batch, doc, minutes) ==
    IF batch = <<>> \/ st.error # ""
    THEN st
    ELSE ScanFrom(ProcessTx(st, Head(batch), doc, minutes, 0), Tail(batch),
                  doc, minutes)

ScanBatch(batch, doc) ==
    ScanFrom([timestamps |-> <<>>, findings |-> <<>>, error |-> ""], batch, doc,
             WindowMinutes(RapidCfg(doc)))

(***************************************************************************)
(* Vocabulary of the properties.                                           *)
(***************************************************************************)
Severities == {"info", "warning", "critical"}

\* the record the loop of scan_transactions is about to take
Cur == transactions[pos]

\* this step is one iteration of the loop of scan_transactions on Cur,
\* completed or ended by an exception
TxStep ==
    /\ op = "scan_transactions"
    /\ pc = "loop"
    /\ pos <= Len(transactions)
    /\ (pos' = pos + 1 \/ pc' = "raised")

\* the findings this step appends
Emitted == SubSeq(findings', Len(findings) + 1, Len(findings'))

HasSubtype(fs, subtype) == \E i \in DOMAIN fs : fs[i].subtype = subtype

HasTimestamp(tx) == TimestampOf(tx).kind = "iso"

\* the amount of tx is a number above the configured high-value threshold
AmountExceeds(tx) ==
    LET cfg == HighValueCfg(rules)
        raw == Get(tx, "amount", Num(0))
    IN  /\ "threshold" \in DOMAIN cfg
        /\ ~FloatRaises(raw)
        /\ Float(raw) > cfg.threshold

\* the rapid_transactions rule states both a window and a max count
WindowRule ==
    /\ "timeWindow" \in DOMAIN RapidCfg(rules)
    /\ "count" \in DOMAIN RapidCfg(rules)

\* C1: in scan_transactions every event with a parsable timestamp first
\* evicts the stored timestamps older than eventTime - windowDuration, then
\* appends its own, and a rapid_transactions finding is emitted for it if and
\* only if the resulting count exceeds the rule's max count.
CE_C1 ==
    [][(TxStep /\ WindowRule /\ HasTimestamp(Cur)) =>
        LET t == TimestampOf(Cur)
            kept == SelectSeq(timestamps,
                        LAMBDA s : ~(s.minute < t.minute - window_minutes))
        IN  /\ timestamps' = Append(kept, [minute |-> t.minute, aware |-> t.aware])
            /\ HasSubtype(Emitted, "rapid_transactions")
                   <=> Len(timestamps') > RapidCfg(rules).count]_vars

\* the parsed timestamps of the events handled so far, in arrival order
RECURSIVE Accumulated(_)
Accumulated(n) ==
    IF n = 0 THEN <<>>
    ELSE IF HasTimestamp(transactions[n])
         THEN Append(Accumulated(n - 1), TimestampOf(transactions[n]).minute)
         ELSE Accumulated(n - 1)

\* C2: after each event is handled, the window holds as many timestamps as
\* there are accumulated timestamps (the event's own included) with
\* eventTime - storedTime <= windowDuration, for batches in any order.
CE_C2 ==
    (/\ op = "scan_transactions"
     /\ pc = "loop"
     /\ WindowRule
     /\ pos > 1
     /\ HasTimestamp(transactions[pos - 1]))
    => LET acc == Accumulated(pos - 1)
           eventTime == acc[Len(acc)]
       IN  Len(timestamps) =
               Cardinality({i \in DOMAIN acc : eventTime - acc[i] <= window_minutes})

Perms(n) == {p \in [1..n -> 1..n] : \A i, j \in 1..n : p[i] = p[j] => i = j}

RapidEvents(fs) ==
    {fs[i].transaction : i \in {j \in DOMAIN fs : fs[j].subtype = "rapid_transactions"}}

\* C3: every arrival order of the same batch emits rapid_transactions
\* findings for the same events.
CE_C3 ==
    (op = "scan_transactions" /\ pc = "returned" /\ FinEnabled(rules))
    => \A p \in Perms(Len(transactions)) :
          LET other == ScanBatch([i \in DOMAIN transactions |-> transactions[p[i]]],
                                 rules)
          IN  other.error = ""
              => RapidEvents(other.findings) = RapidEvents(findings)

\* C4: the content of every finding of scan_text holds no word of the text
\* that any enabled pattern matches.
CE_C4 ==
    op = "scan_text"
    => \A f \in DOMAIN results : \A i \in DOMAIN results[f].content :
          \A k \in DOMAIN Patterns(rules) :
              ~(/\ results[f].content[i] = text[i]
                /\ Matches(Patterns(rules)[k].cfg.regex, text[i]))

\* C5: a record whose amount or timestamp does not parse never aborts the
\* batch: scan_transactions does not end by the conversion's exception.
CE_C5 == ~(op = "scan_transactions" /\ pc = "raised" /\ error = "ValueError")

\* C6: an event whose timestamp is absent or does not parse leaves the
\* stored timestamps as they were, emits no rapid_transactions finding, and
\* still gets its high-value check: a high_value_transaction finding is
\* emitted for it exactly when its amount exceeds the threshold.
Thm_C6 ==
    [][(TxStep /\ ~HasTimestamp(Cur)) =>
        /\ timestamps' = timestamps
        /\ ~HasSubtype(Emitted, "rapid_transactions")
        /\ HasSubtype(Emitted, "high_value_transaction") <=> AmountExceeds(Cur)
        /\ SubSeq(findings', 1, Len(findings)) = findings]_vars

\* C6 witness: an event without a parsable timestamp has just been handled
\* while the window held timestamps, and its high-value finding is out.
W_C6 ==
    /\ op = "scan_transactions"
    /\ pc = "loop"
    /\ pos > 1
    /\ ~HasTimestamp(transactions[pos - 1])
    /\ timestamps # <<>>
    /\ findings # <<>>
    /\ findings[Len(findings)].subtype = "high_value_transaction"
    /\ findings[Len(findings)].transaction = transactions[pos - 1]

RuleOf(f) ==
    IF f.subtype = "high_value_transaction"
    THEN HighValueCfg(rules)
    ELSE RapidCfg(rules)

\* the pattern configuration a finding of scan_text comes from
PatternOf(f) ==
    LET k == CHOOSE k \in DOMAIN Patterns(rules) : Patterns(rules)[k].name = f.subtype
    IN  Patterns(rules)[k].cfg

Resolved(cfg, f) ==
    /\ "severity" \in DOMAIN cfg
    /\ "action" \in DOMAIN cfg
    /\ f.severity = cfg.severity
    /\ f.action = cfg.action
    /\ f.severity \in Severities

\* C8: every finding scan_text and scan_transactions emit comes from a rule
\* whose configuration states a severity and an action, and carries them.
CE_C8 ==
    /\ \A i \in DOMAIN findings : Resolved(RuleOf(findings[i]), findings[i])
    /\ \A i \in DOMAIN results : Resolved(PatternOf(results[i]), results[i])

\* the sources detect_api_anomalies has analysed so far
Analysed == 1..(pos - 1)

CallsOf(k) == Get(api_sources[k], "callsToday", 0)

BatchTotal ==
    SumCalls([k \in DOMAIN api_sources |-> CallsOf(k)])

\* source k exceeds three times the batch mean, the mean being above zero
Spikes(k) ==
    /\ BatchTotal > 0
    /\ CallsOf(k) * Len(api_sources) > 3 * BatchTotal

\* the tier of source k: below five times the mean or not
TierOf(k) ==
    IF CallsOf(k) * Len(api_sources) < 5 * BatchTotal
    THEN "warning"
    ELSE "critical"

VolumeFindings == SelectSeq(anomalies, LAMBDA a : a.type = "volume_spike")

\* C9: detect_api_anomalies emits a volume_spike finding for a source if and
\* only if the batch mean is above zero and the source's callsToday exceeds
\* three times the mean, with severity warning below five times the mean
\* and critical from five times up (mean 100: 350 warning, 600 critical); a
\* zero mean gives no such finding, and the call never raises.
Thm_C9 ==
    op = "detect_api_anomalies"
    => /\ pc # "raised"
       /\ pc \in {"loop", "returned"}
          => LET spiking == SelectSeq([k \in Analysed |-> k], LAMBDA k : Spikes(k))
             IN  /\ Len(VolumeFindings) = Len(spiking)
                 /\ \A j \in DOMAIN spiking :
                       /\ VolumeFindings[j].metadata.current_calls = CallsOf(spiking[j])
                       /\ VolumeFindings[j].severity = TierOf(spiking[j])
                 /\ BatchTotal = 100 * Len(api_sources)
                    => \A j \in DOMAIN spiking :
                          /\ CallsOf(spiking[j]) = 350
                             => VolumeFindings[j].severity = "warning"
                          /\ CallsOf(spiking[j]) = 600
                             => VolumeFindings[j].severity = "critical"

\* C9 witness: the batch mean is 100 and a source with 600 calls has its
\* critical volume_spike finding.
W_C9 ==
    /\ op = "detect_api_anomalies"
    /\ pc = "returned"
    /\ BatchTotal = 100 * Len(api_sources)
    /\ \E j \in DOMAIN VolumeFindings :
          /\ VolumeFindings[j].metadata.current_calls = 600
          /\ VolumeFindings[j].severity = "critical"

\* the findings without their generation timestamp
Undated(fs) == [i \in DOMAIN fs |-> [fs[i] EXCEPT !.timestamp = 0]]

SecondReturned ==
    op = "scan_transactions" /\ call = "second" /\ pc = "returned"

\* C10 as stated: the second call on the same batch and rules returns the
\* finding sequence the first call returned.
CE_C10 == SecondReturned => findings = previous

\* C10 amended: the second call returns the findings of the first in every
\* field but the generation timestamp; the window starts empty on each call.
Thm_C10 == SecondReturned => Undated(findings) = Undated(previous)

\* C10 witness: both calls have returned rapid_transactions findings, stamped
\* at different instants.
W_C10 ==
    /\ SecondReturned
    /\ HasSubtype(findings, "rapid_transactions")
    /\ findings # previous
    /\ timestamps # <<>>

\* every record of the batch has a parsable timestamp and every one lies in
\* the window of every other
OneWindow ==
    \A i, j \in DOMAIN transactions :
        /\ HasTimestamp(transactions[i])
        /\ HasTimestamp(transactions[j])
        /\ TimestampOf(transactions[j]).minute
               >= TimestampOf(transactions[i]).minute - window_minutes

RapidFindings == SelectSeq(findings, LAMBDA f : f.subtype = "rapid_transactions")

\* C11: a breach does not reset the window, so for n events that all fall
\* inside one window scan_transactions returns max(0, n - maxCount)
\* rapid_transactions findings, one for every event past the max count, each
\* reporting the window size at its event as transaction_count.
CE_C11 ==
    (/\ op = "scan_transactions"
     /\ pc = "returned"
     /\ FinEnabled(rules)
     /\ WindowRule
     /\ OneWindow)
    => LET n == Len(transactions)
           maxCount == RapidCfg(rules).count
       IN  /\ Len(RapidFindings) = IF n > maxCount THEN n - maxCount ELSE 0
           /\ \A j \in DOMAIN RapidFindings :
                 RapidFindings[j].transaction_count = maxCount + j

====
